---------------------------- MODULE Spec2Model ----------------------------
(***************************************************************************)
(* Model of the ai-manager plugin (Koishi): message accumulator, judge     *)
(* client (callAI) and shutdown hook, in the three revisions the           *)
(* repository holds:                                                       *)
(*   "single"  src/src/index.ts lines 98-267  (one batchTimer, callAI with *)
(*             retry loop, 'dispose' hook)                                 *)
(*   "two"     src/src/index.ts lines 380-579 (inactivityTimer and         *)
(*             maxWaitTimer, one-shot callAI, no 'dispose' hook)           *)
(*   "part"    src/unnamed/part_000           (one batchTimer armed only   *)
(*             in batchMode, retry loop inside triggerAnalysis, 'dispose') *)
(* Time is counted in units of 10 s (10000 ms).  Timers and retry waits    *)
(* run on the single-threaded event loop: a callback that is due runs      *)
(* before the clock advances, in any order with the other events of that   *)
(* instant.                                                                *)
(***************************************************************************)
EXTENDS Integers, Sequences, FiniteSets, TLC

(* ---------------------------- bounds ---------------------------------- *)
MaxMsgs == 3            \* accepted messages per run
MaxTime == 7            \* last clock value explored

(* ----------------- configuration (units of 10 s) ---------------------- *)
maxBatchSize == 3       \* config.maxBatchSize
inactivityTimeout == 4  \* config.inactivityTimeout (index.ts)
maxBatchWaitTime == 6   \* config.maxBatchWaitTime (index.ts)
maxBatchTime == 2       \* config.maxBatchTime (part_000)

(* ----------------- program constants (units of 10 s) ------------------ *)
RetryBase == 2          \* 20000 ms
RetryStep == 1          \* 10000 ms per attempt

Null == -1              \* JavaScript null for a time or a timer handle

VARIABLES
    variant,        \* which revision runs: "single", "two" or "part"
    batchMode,      \* config.batchMode (part_000)
    now,            \* Date.now()
    nOffered,       \* number of messages accepted so far (source of messageId)
    messageBatch,   \* messageBatch / globalBatch.messages: pending messages
    batchStartTime, \* batchStartTime (single, part)
    batchTimer,     \* batchTimer handle (single, part)
    inactivityTimer,\* globalBatch.inactivityTimer handle (two)
    maxWaitTimer,   \* globalBatch.maxWaitTimer handle (two)
    timers,         \* timers the runtime holds armed: set of [kind, due]
    retryTime,      \* shared retryTime (single, part)
    calls,          \* every analysis started: sequence of call records
    exitedOnFailure,\* history: some judge call returned on a failed attempt
    disposePc,      \* 'dispose' handler: "idle", "awaiting" or "done"
    originalMessages, \* dispatcher: the batch the judge output refers to
    judgeOutput,    \* dispatcher: the violations list it was called with
    Action,         \* config.Action: the set of enabled actions
    dispatch,       \* dispatcher: [pc, pos, log, rejected, raised]
    session,        \* ingestion: the session the middleware was last called with
    nSeen,          \* ingestion: number of sessions delivered to the middleware
    replyText,      \* coercion: the content of the reply under study
    coerced         \* coercion: what callAI made of it

dispatchVars == << originalMessages, judgeOutput, Action, dispatch >>
ingestVars == << session, nSeen >>
coerceVars == << replyText, coerced >>

\* the variables of the dispatcher and of the studies of the ingestion filter
\* and of the reply coercion, which the accumulator and the judge loop never
\* touch
side == << dispatchVars, ingestVars, coerceVars >>

vars == << variant, batchMode, now, nOffered, messageBatch, batchStartTime,
           batchTimer, inactivityTimer, maxWaitTimer, timers, retryTime,
           calls, exitedOnFailure, disposePc, side >>

Min(a, b) == IF a <= b THEN a ELSE b
Max(a, b) == IF a >= b THEN a ELSE b
SetMin(S) == CHOOSE x \in S : \A y \in S : x <= y
SetMax(S) == CHOOSE x \in S : \A y \in S : x >= y


(* ------------------------- judge replies ------------------------------ *)
(* A reply is what ctx.http.post resolves or rejects with.  ok = FALSE is  *)
(* a transport error or a timeout.  content is choices[0].message.content  *)
(* as a sequence of tokens (white space left out):                         *)
(*   "fo"  the text ```json      "fc"  the text ```                         *)
(*   "["  "]"  "{"  "}"          "r"   one JSON scalar or record            *)
(*   "p"   prose that is not JSON                                          *)
(*   "q"   a quotation mark: a JSON string runs from one to the next       *)
Tokens == {"fo", "fc", "[", "]", "{", "}", "r", "p", "q"}

EmptyArray == << "[", "]" >>

\* JSON.parse: position after the one value that starts at s[i], 0 if none does
RECURSIVE EndOfValue(_, _)
RECURSIVE EndOfItems(_, _, _)
EndOfValue(s, i) ==
    IF i > Len(s) THEN 0
    ELSE IF s[i] = "r" THEN i + 1
    ELSE IF s[i] = "[" THEN EndOfItems(s, i + 1, "]")
    ELSE IF s[i] = "{" THEN EndOfItems(s, i + 1, "}")
    ELSE IF s[i] = "q"
       THEN LET closing == { j \in (i + 1)..Len(s) : s[j] = "q" }
            IN  IF closing = {} THEN 0 ELSE SetMin(closing) + 1
    ELSE 0

EndOfItems(s, i, close) ==
    IF i > Len(s) THEN 0
    ELSE IF s[i] = close THEN i + 1
    ELSE LET j == EndOfValue(s, i)
         IN  IF j = 0 THEN 0 ELSE EndOfItems(s, j, close)

\* JSON.parse(s) does not throw
JsonParses(s) == Len(s) > 0 /\ EndOfValue(s, 1) = Len(s) + 1

\* JSON.parse(s) does not throw and Array.isArray(parsed)
ParsesAsArray(s) == JsonParses(s) /\ s[1] = "["

\* parsed.length of an array s: the number of its top-level items
RECURSIVE CountItems(_, _)
CountItems(s, i) ==
    IF i >= Len(s) THEN 0
    ELSE 1 + CountItems(s, EndOfValue(s, i))

ArrayLength(s) == IF ParsesAsArray(s) THEN CountItems(s, 2) ELSE 0

\* content.match(/```json\s*([\s\S]*?)\s*```/): the lazy capture after the first
\* ```json up to the next ``` (which an opening ```json also starts with)
FenceOpen(s) == { i \in 1..Len(s) : s[i] = "fo" }
FenceClose(s, i) == { j \in (i + 1)..Len(s) : s[j] \in {"fo", "fc"} }
FenceMatches(s) ==
    /\ FenceOpen(s) # {}
    /\ FenceClose(s, SetMin(FenceOpen(s))) # {}
FenceBody(s) ==
    LET i == SetMin(FenceOpen(s))
    IN  SubSeq(s, i + 1, SetMin(FenceClose(s, i)) - 1)

\* indexOf('[') and lastIndexOf(']'), 0 standing for -1
FirstBracket(s) ==
    LET S == { i \in 1..Len(s) : s[i] = "[" } IN IF S = {} THEN 0 ELSE SetMin(S)
LastBracket(s) ==
    LET S == { i \in 1..Len(s) : s[i] = "]" } IN IF S = {} THEN 0 ELSE SetMax(S)
HasBracketSpan(s) == FirstBracket(s) # 0 /\ LastBracket(s) > FirstBracket(s)
BracketSpan(s) == SubSeq(s, FirstBracket(s), LastBracket(s))


TransportError == [ok |-> FALSE, content |-> << >>]

\* the replies the provider answers with in this model
Replies ==
    { TransportError,
      [ok |-> TRUE, content |-> << >>],
      [ok |-> TRUE, content |-> << "p" >>],
      [ok |-> TRUE, content |-> << "{", "[", "r", "]", "}" >>],
      [ok |-> TRUE, content |-> << "[", "]" >>],
      [ok |-> TRUE, content |-> << "p", "fo", "[", "r", "]", "fc" >>] }

Failed == [ok |-> FALSE, violations |-> << >>]
Returned(v) == [ok |-> TRUE, violations |-> v]

\* the candidates in the opposite order: C20 must notice it
CandidatesWholeFirst(content) ==
    << content >>
    \o (IF HasBracketSpan(content) THEN << BracketSpan(content) >> ELSE << >>)
    \o (IF FenceMatches(content) /\ FenceBody(content) # << >>
           THEN << FenceBody(content) >> ELSE << >>)

\* index.ts 147-165: the candidates of potentialStrings in insertion order
Candidates(content) ==
    (IF FenceMatches(content) /\ FenceBody(content) # << >>
        THEN << FenceBody(content) >> ELSE << >>)
    \o (IF HasBracketSpan(content) THEN << BracketSpan(content) >> ELSE << >>)
    \o << content >>

\* index.ts 147-165 (single): what one attempt of callAI makes of a reply
CoerceSingle(reply) ==
    IF ~reply.ok \/ reply.content = << >> THEN Failed
    ELSE LET cs == Candidates(reply.content)
             good == { k \in 1..Len(cs) : ParsesAsArray(cs[k]) }
         IN  IF good = {} THEN Failed ELSE Returned(cs[SetMin(good)])

\* part_000 130-153: violations starts as [], and "if (violations)" holds of any array
CoercePart(reply) ==
    IF ~reply.ok \/ reply.content = << >> THEN Failed
    ELSE LET jsonString == IF FenceMatches(reply.content)
                              THEN FenceBody(reply.content) ELSE reply.content
             violations ==
                 IF JsonParses(jsonString)
                    THEN IF ParsesAsArray(jsonString) THEN jsonString ELSE EmptyArray
                 ELSE IF HasBracketSpan(jsonString)
                         /\ ParsesAsArray(BracketSpan(jsonString))
                    THEN BracketSpan(jsonString)
                 ELSE EmptyArray
         IN  Returned(violations)

\* index.ts 451-473 (two): JSON.parse(responseContent).violations || [], and []
\* on any error; the first member of an object stands for its "violations" key
CoerceTwo(reply) ==
    IF ~reply.ok \/ reply.content = << >> THEN Returned(EmptyArray)
    ELSE LET c == reply.content
             member == IF JsonParses(c) /\ c[1] = "{" /\ Len(c) > 2
                          THEN SubSeq(c, 2, EndOfValue(c, 2) - 1) ELSE << >>
         IN  IF ParsesAsArray(member) THEN Returned(member)
             ELSE Returned(EmptyArray)

\* what each revision makes of each reply, tabulated once
CoerceOf ==
    [v \in {"single", "part", "two"} |->
        [reply \in Replies |->
            CASE v = "single" -> CoerceSingle(reply)
              [] v = "part"   -> CoercePart(reply)
              [] v = "two"    -> CoerceTwo(reply)]]

Coerce(reply) == CoerceOf[variant][reply]

(* --------------------------- judge calls ------------------------------ *)
(* One record per analysis started (callAI / the loop of triggerAnalysis): *)
(*   aiPayload  the ids of the messages handed over (the request body)     *)
(*   origin   what started it: "size", "overdue", "dispose" or the kind of *)
(*            the timer that fired                                          *)
(*   pc       "sleep" (retry-delay wait), "http" (request in flight),      *)
(*            "dispatch" (processViolations running), "done"               *)
(*   attempt  the local counter              wake    end of the retry wait *)
(*   violations  what the judge loop returned                              *)
(* attempt, wake and violations are locals of the loop: once the call is   *)
(* done they are gone (0, Null, << >>).  calls keeps every call, so it is  *)
(* also the record of what was passed to the judge.                        *)

\* some candidate string of the reply parses as a JSON array
HoldsArray(reply) ==
    /\ reply.ok
    /\ \/ ParsesAsArray(reply.content)
       \/ HasBracketSpan(reply.content) /\ ParsesAsArray(BracketSpan(reply.content))
       \/ /\ FenceMatches(reply.content)
          /\ \/ ParsesAsArray(FenceBody(reply.content))
             \/ /\ HasBracketSpan(FenceBody(reply.content))
                /\ ParsesAsArray(BracketSpan(FenceBody(reply.content)))

\* index.ts 133-137, part_000 123: top of the retry loop
GateOpen(rt) == ~(now < rt)

LoopTop(c, rt) ==
    IF GateOpen(rt) THEN [c EXCEPT !.pc = "http", !.wake = Null]
    ELSE [c EXCEPT !.pc = "sleep", !.wake = rt]

\* index.ts 124-129, part_000 118: the request body names each message by its id
AiPayload(batch) == [k \in 1..Len(batch) |-> batch[k].messageId]

\* index.ts 122-137 / 448-452 / part_000 115-123: the call up to its first await
NewCall(batch, origin, rt) ==
    LET c == [aiPayload |-> AiPayload(batch),
              origin |-> origin, pc |-> "http", attempt |-> 0,
              wake |-> Null, violations |-> << >>]
    IN  IF variant = "two" THEN c ELSE LoopTop(c, rt)

\* a faulty delay that does not grow with the attempt: C19 must notice it
RetryDelayFlat(attempt) == RetryBase + RetryStep

\* index.ts 166-170, part_000 154-158: the catch block, then the loop again
RetryDelay(attempt) == RetryBase + attempt * RetryStep

\* a faulty catch block that gives up instead of looping: C10 must notice it
OnFailureGivesUp(c) ==
    [call |-> [c EXCEPT !.pc = "done", !.attempt = 0, !.violations = << >>],
     retryTime |-> retryTime, failedExit |-> TRUE]

OnFailure(c) ==
    LET n == c.attempt + 1
        rt == now + RetryDelay(n)
    IN  [call |-> LoopTop([c EXCEPT !.attempt = n], rt), retryTime |-> rt,
         failedExit |-> FALSE]

\* index.ts 160-161 and 220-221, part_000 147-160: success, retryTime = 0, then
\* processViolations only for a non-empty list
Finished(c) ==
    [c EXCEPT !.pc = "done", !.attempt = 0, !.violations = << >>]

OnSuccess(c, reply, v) ==
    [call |-> IF ArrayLength(v) > 0
                 THEN [c EXCEPT !.pc = "dispatch", !.violations = v]
              ELSE Finished(c),
     retryTime |-> 0, failedExit |-> ~HoldsArray(reply)]

\* the continuation of ctx.http.post
OnReply(c, reply) ==
    LET res == Coerce(reply)
    IN  IF variant = "two"
           THEN [OnSuccess(c, reply, res.violations) EXCEPT !.retryTime = retryTime]
        ELSE IF res.ok THEN OnSuccess(c, reply, res.violations)
        ELSE OnFailure(c)


(* --------------------------- accumulator ------------------------------ *)
\* the accumulator state a handler works on
Acc ==
    [messageBatch |-> messageBatch, batchStartTime |-> batchStartTime,
     batchTimer |-> batchTimer, inactivityTimer |-> inactivityTimer,
     maxWaitTimer |-> maxWaitTimer, timers |-> timers, calls |-> calls]

Commit(a) ==
    /\ messageBatch' = a.messageBatch
    /\ batchStartTime' = a.batchStartTime
    /\ batchTimer' = a.batchTimer
    /\ inactivityTimer' = a.inactivityTimer
    /\ maxWaitTimer' = a.maxWaitTimer
    /\ timers' = a.timers
    /\ calls' = a.calls

\* a number read from a value that may be null (null - behaves as 0)
NumOf(x) == IF x = Null THEN 0 ELSE x

\* "if (h) clearTimeout(h)": a handle is the due time of its timer
ClearTimeout(ts, kind, h) ==
    IF h = Null THEN ts ELSE ts \ { [kind |-> kind, due |-> h] }

\* setTimeout(callback, delay): the timer armed
Armed(kind, delay) == [kind |-> kind, due |-> now + delay]

\* the MessageInfo pushed by the middleware
NewMessage == [messageId |-> nOffered + 1, timestamp |-> now]

\* callAI(batch) / analyzeAndAct(batch) is invoked
StartCall(a, batch, origin) ==
    [a EXCEPT !.calls = Append(@, NewCall(batch, origin, retryTime))]

\* a faulty triggerAnalysis that cancels the timer but keeps its handle: C23 must
\* notice it
TriggerAnalysisKeepsHandle(a, origin) ==
    LET cleared == [a EXCEPT !.timers = ClearTimeout(@, "batch", a.batchTimer),
                             !.batchStartTime = Null]
    IN  IF Len(cleared.messageBatch) = 0 THEN cleared
        ELSE StartCall([cleared EXCEPT !.messageBatch = << >>],
                       cleared.messageBatch, origin)

\* index.ts 213-222, part_000 110-116: triggerAnalysis up to its first await
TriggerAnalysis(a, origin) ==
    LET cleared == [a EXCEPT !.timers = ClearTimeout(@, "batch", a.batchTimer),
                             !.batchTimer = Null,
                             !.batchStartTime = Null]
    IN  IF Len(cleared.messageBatch) = 0 THEN cleared
        ELSE StartCall([cleared EXCEPT !.messageBatch = << >>],
                       cleared.messageBatch, origin)

\* a faulty re-arm that ignores maxWaitTimeRemaining: C6 must notice it
RearmInactivityOnly(a) ==
    LET a2 == [a EXCEPT !.timers = ClearTimeout(@, "batch", a.batchTimer)]
    IN  [a2 EXCEPT !.batchTimer = now + inactivityTimeout,
                   !.timers = @ \cup { Armed("batch", inactivityTimeout) }]

\* a faulty re-arm that schedules a timer of delay 0 where the code flushes:
\* C22 must notice it
RearmNonNegative(a) ==
    LET a2 == [a EXCEPT !.timers = ClearTimeout(@, "batch", a.batchTimer)]
        timeSinceBatchStart == now - NumOf(a2.batchStartTime)
        maxWaitTimeRemaining == maxBatchWaitTime - timeSinceBatchStart
        nextTimeout == Min(inactivityTimeout, maxWaitTimeRemaining)
    IN  IF nextTimeout >= 0
           THEN [a2 EXCEPT !.batchTimer = now + nextTimeout,
                           !.timers = @ \cup { Armed("batch", nextTimeout) }]
        ELSE TriggerAnalysis(a2, "overdue")

\* index.ts 244-252 (single): re-arm the one timer, or flush when none is left
Rearm(a) ==
    LET a2 == [a EXCEPT !.timers = ClearTimeout(@, "batch", a.batchTimer)]
        timeSinceBatchStart == now - NumOf(a2.batchStartTime)
        maxWaitTimeRemaining == maxBatchWaitTime - timeSinceBatchStart
        nextTimeout == Min(inactivityTimeout, maxWaitTimeRemaining)
    IN  IF nextTimeout > 0
           THEN [a2 EXCEPT !.batchTimer = now + nextTimeout,
                           !.timers = @ \cup { Armed("batch", nextTimeout) }]
        ELSE TriggerAnalysis(a2, "overdue")

\* a faulty middleware that flushes only above maxBatchSize: C4 must notice it
MiddlewareSingleOffByOne(a, msg) ==
    LET a1 == [a EXCEPT
                 !.batchStartTime = IF Len(a.messageBatch) = 0 THEN now ELSE @,
                 !.messageBatch = Append(@, msg)]
    IN  IF Len(a1.messageBatch) > maxBatchSize
           THEN TriggerAnalysis(a1, "size")
        ELSE Rearm(a1)

\* index.ts 229-253 (single): the middleware on an accepted message
MiddlewareSingle(a, msg) ==
    LET a1 == [a EXCEPT
                 !.batchStartTime = IF Len(a.messageBatch) = 0 THEN now ELSE @,
                 !.messageBatch = Append(@, msg)]
    IN  IF Len(a1.messageBatch) >= maxBatchSize
           THEN TriggerAnalysis(a1, "size")
        ELSE Rearm(a1)

\* part_000 216-220: the timer of batchMode
RearmPart(a) ==
    LET a1 == [a EXCEPT
                 !.batchStartTime = IF Len(a.messageBatch) = 1 THEN now ELSE @]
        a2 == [a1 EXCEPT !.timers = ClearTimeout(@, "batch", a1.batchTimer)]
        delay == Max(0, maxBatchTime - (now - NumOf(a2.batchStartTime)))
    IN  [a2 EXCEPT !.batchTimer = now + delay,
                   !.timers = @ \cup { Armed("batch", delay) }]

\* a faulty middleware that flushes only above maxBatchSize: C24 must notice it
MiddlewarePartOffByOne(a, msg) ==
    LET a1 == [a EXCEPT !.messageBatch = Append(@, msg)]
    IN  IF Len(a1.messageBatch) > maxBatchSize
           THEN TriggerAnalysis(a1, "size")
        ELSE IF batchMode THEN RearmPart(a1)
        ELSE a1

\* part_000 209-221: the middleware on an accepted message
MiddlewarePart(a, msg) ==
    LET a1 == [a EXCEPT !.messageBatch = Append(@, msg)]
    IN  IF Len(a1.messageBatch) >= maxBatchSize
           THEN TriggerAnalysis(a1, "size")
        ELSE IF batchMode THEN RearmPart(a1)
        ELSE a1

\* index.ts 548-551 (two): splice off full batches while one is there
RECURSIVE SliceFull(_)
SliceFull(a) ==
    IF Len(a.messageBatch) >= maxBatchSize
       THEN SliceFull(StartCall(
                [a EXCEPT !.messageBatch = SubSeq(@, maxBatchSize + 1, Len(@))],
                SubSeq(a.messageBatch, 1, maxBatchSize), "size"))
    ELSE a

\* index.ts 552-555 (two): timers for what is left after slicing
RearmTwo(a) ==
    IF Len(a.messageBatch) > 0
       THEN LET a1 == [a EXCEPT
                         !.inactivityTimer = now + inactivityTimeout,
                         !.timers = @ \cup { Armed("inactivity", inactivityTimeout) }]
            IN  IF a1.maxWaitTimer = Null
                   THEN [a1 EXCEPT
                           !.maxWaitTimer = now + maxBatchWaitTime,
                           !.timers = @ \cup { Armed("maxWait", maxBatchWaitTime) }]
                ELSE a1
    ELSE a

\* a faulty final trigger that submits the batch without emptying it: C1 must
\* notice it
TriggerAnalysisTwoKeepsBatch(a, isFinalTrigger, origin) ==
    IF Len(a.messageBatch) = 0 THEN a
    ELSE LET cleared ==
                 [a EXCEPT
                    !.timers = ClearTimeout(
                                   ClearTimeout(@, "inactivity", a.inactivityTimer),
                                   "maxWait", a.maxWaitTimer),
                    !.inactivityTimer = Null,
                    !.maxWaitTimer = Null]
         IN  IF isFinalTrigger
                THEN StartCall(cleared, cleared.messageBatch, origin)
             ELSE RearmTwo(SliceFull(cleared))

\* a faulty trigger that cancels the inactivity timer only: C18 must notice it
TriggerAnalysisTwoLeavesMaxWait(a, isFinalTrigger, origin) ==
    IF Len(a.messageBatch) = 0 THEN a
    ELSE LET cleared ==
                 [a EXCEPT
                    !.timers = ClearTimeout(@, "inactivity", a.inactivityTimer),
                    !.inactivityTimer = Null]
         IN  IF isFinalTrigger
                THEN StartCall([cleared EXCEPT !.messageBatch = << >>],
                               cleared.messageBatch, origin)
             ELSE RearmTwo(SliceFull(cleared))

\* index.ts 537-556 (two): triggerAnalysis(isFinalTrigger); origin names the caller
TriggerAnalysisTwo(a, isFinalTrigger, origin) ==
    IF Len(a.messageBatch) = 0 THEN a
    ELSE LET cleared ==
                 [a EXCEPT
                    !.timers = ClearTimeout(
                                   ClearTimeout(@, "inactivity", a.inactivityTimer),
                                   "maxWait", a.maxWaitTimer),
                    !.inactivityTimer = Null,
                    !.maxWaitTimer = Null]
         IN  IF isFinalTrigger
                THEN StartCall([cleared EXCEPT !.messageBatch = << >>],
                               cleared.messageBatch, origin)
             ELSE RearmTwo(SliceFull(cleared))

\* a faulty middleware that arms a new inactivity timer without cancelling the
\* old one: C5 must notice it
MiddlewareTwoNoCancel(a, msg) ==
    LET a1 == IF Len(a.messageBatch) = 0
                 THEN [a EXCEPT
                         !.maxWaitTimer = now + maxBatchWaitTime,
                         !.timers = @ \cup { Armed("maxWait", maxBatchWaitTime) }]
              ELSE a
        a2 == [a1 EXCEPT
                 !.timers = @ \cup { Armed("inactivity", inactivityTimeout) },
                 !.inactivityTimer = now + inactivityTimeout]
        a3 == [a2 EXCEPT !.messageBatch = Append(@, msg)]
    IN  IF Len(a3.messageBatch) >= maxBatchSize
           THEN TriggerAnalysisTwo(a3, FALSE, "size")
        ELSE a3

\* index.ts 564-576 (two): the middleware on an accepted message
MiddlewareTwo(a, msg) ==
    LET a1 == IF Len(a.messageBatch) = 0
                 THEN [a EXCEPT
                         !.maxWaitTimer = now + maxBatchWaitTime,
                         !.timers = @ \cup { Armed("maxWait", maxBatchWaitTime) }]
              ELSE a
        a2 == [a1 EXCEPT
                 !.timers = ClearTimeout(@, "inactivity", a1.inactivityTimer)
                            \cup { Armed("inactivity", inactivityTimeout) },
                 !.inactivityTimer = now + inactivityTimeout]
        a3 == [a2 EXCEPT !.messageBatch = Append(@, msg)]
    IN  IF Len(a3.messageBatch) >= maxBatchSize
           THEN TriggerAnalysisTwo(a3, FALSE, "size")
        ELSE a3

Middleware(a, msg) ==
    CASE variant = "single" -> MiddlewareSingle(a, msg)
      [] variant = "part"   -> MiddlewarePart(a, msg)
      [] variant = "two"    -> MiddlewareTwo(a, msg)

\* the callback of a timer that fired
TimerCallback(a, kind) ==
    IF variant = "two" THEN TriggerAnalysisTwo(a, TRUE, kind)
    ELSE TriggerAnalysis(a, kind)

\* a faulty 'dispose' handler that leaves the pending timer armed: C3 must
\* notice it
DisposeSingleNoCancel(a) ==
    IF Len(a.messageBatch) > 0
       THEN StartCall(a, a.messageBatch, "dispose")
    ELSE a

\* index.ts 259-266 (single): the 'dispose' handler up to its first await
DisposeSingle(a) ==
    LET a1 == [a EXCEPT !.timers = ClearTimeout(@, "batch", a.batchTimer)]
    IN  IF Len(a1.messageBatch) > 0
           THEN StartCall(a1, a1.messageBatch, "dispose")
        ELSE a1

\* part_000 227-230: the 'dispose' handler up to its first await
DisposePart(a) ==
    LET a1 == [a EXCEPT !.timers = ClearTimeout(@, "batch", a.batchTimer)]
    IN  IF Len(a1.messageBatch) > 0 THEN TriggerAnalysis(a1, "dispose") ELSE a1

DisposeHandler(a) ==
    IF variant = "single" THEN DisposeSingle(a) ELSE DisposePart(a)


(* ----------------------------- actions -------------------------------- *)
\* no session was delivered yet
NoSession == [isDirect |-> FALSE, guildId |-> "", isBot |-> FALSE,
              userId |-> "", cid |-> ""]

IngestIdle == session = NoSession /\ nSeen = 0

\* no reply is under study
CoerceIdle == replyText = << >> /\ coerced = << >>

\* no dispatcher is running
DispatcherIdle ==
    /\ originalMessages = << >>
    /\ judgeOutput = << >>
    /\ Action = {}
    /\ dispatch = [pc |-> "idle", pos |-> 0, log |-> << >>,
                   rejected |-> FALSE, raised |-> FALSE]

Init ==
    /\ variant \in {"single", "two", "part"}
    /\ batchMode \in (IF variant = "part" THEN BOOLEAN ELSE {FALSE})
    /\ now = 0
    /\ nOffered = 0
    /\ messageBatch = << >>
    /\ batchStartTime = Null
    /\ batchTimer = Null
    /\ inactivityTimer = Null
    /\ maxWaitTimer = Null
    /\ timers = {}
    /\ retryTime = 0
    /\ calls = << >>
    /\ exitedOnFailure = FALSE
    /\ disposePc = "idle"
    /\ DispatcherIdle
    /\ IngestIdle
    /\ CoerceIdle

\* the handler awaiting call c resumes when c is done
Resume(c) ==
    IF c.pc = "done" /\ c.origin = "dispose" THEN "done" ELSE disposePc

\* ctx.middleware: a message that passes the filter is handled
Offer ==
    /\ nOffered < MaxMsgs
    /\ disposePc # "done"
    /\ nOffered' = nOffered + 1
    /\ Commit(Middleware(Acc, NewMessage))
    /\ UNCHANGED side
    /\ UNCHANGED << variant, batchMode, now, retryTime, exitedOnFailure, disposePc >>

\* a timer that is due runs its callback
TimerFire ==
    \E t \in timers :
        /\ t.due <= now
        /\ Commit(TimerCallback([Acc EXCEPT !.timers = @ \ {t}], t.kind))
        /\ UNCHANGED side
        /\ UNCHANGED << variant, batchMode, now, nOffered, retryTime,
                        exitedOnFailure, disposePc >>

\* ctx.on('dispose'): the plugin is unloaded
Dispose ==
    /\ variant # "two"
    /\ disposePc = "idle"
    /\ Commit(DisposeHandler(Acc))
    /\ disposePc' = IF Len(messageBatch) > 0 THEN "awaiting" ELSE "done"
    /\ UNCHANGED side
    /\ UNCHANGED << variant, batchMode, now, nOffered, retryTime, exitedOnFailure >>

\* ctx.http.post settles; a failure is explored only while its retry fits the clock
HttpReply ==
    \E i \in DOMAIN calls : \E reply \in Replies :
        /\ calls[i].pc = "http"
        /\ LET next == OnReply(calls[i], reply)
           IN  /\ next.call.pc = "sleep" => next.call.wake <= MaxTime
               /\ calls' = [calls EXCEPT ![i] = next.call]
               /\ retryTime' = next.retryTime
               /\ exitedOnFailure' = (exitedOnFailure \/ next.failedExit)
               /\ disposePc' = Resume(next.call)
        /\ UNCHANGED side
        /\ UNCHANGED << variant, batchMode, now, nOffered, messageBatch,
                        batchStartTime, batchTimer, inactivityTimer,
                        maxWaitTimer, timers >>

\* index.ts 136-139, part_000 123-125: the retry-delay wait ends and the request
\* is sent
Wake ==
    \E i \in DOMAIN calls :
        /\ calls[i].pc = "sleep"
        /\ calls[i].wake <= now
        /\ calls' = [calls EXCEPT ![i] = [@ EXCEPT !.pc = "http", !.wake = Null]]
        /\ UNCHANGED side
        /\ UNCHANGED << variant, batchMode, now, nOffered, messageBatch,
                        batchStartTime, batchTimer, inactivityTimer,
                        maxWaitTimer, timers, retryTime,
                        exitedOnFailure, disposePc >>

\* processViolations (index.ts 179-207, 481-517; part_000 160-201) returns
DispatchDone ==
    \E i \in DOMAIN calls :
        /\ calls[i].pc = "dispatch"
        /\ LET c == Finished(calls[i])
           IN  /\ calls' = [calls EXCEPT ![i] = c]
               /\ disposePc' = Resume(c)
        /\ UNCHANGED side
        /\ UNCHANGED << variant, batchMode, now, nOffered, messageBatch,
                        batchStartTime, batchTimer, inactivityTimer,
                        maxWaitTimer, timers, retryTime,
                        exitedOnFailure >>

\* the clock advances when no timer and no retry-delay wait is due
Tick ==
    /\ now < MaxTime
    /\ \A t \in timers : t.due > now
    /\ \A i \in DOMAIN calls : calls[i].pc = "sleep" => calls[i].wake > now
    /\ now' = now + 1
    /\ UNCHANGED side
    /\ UNCHANGED << variant, batchMode, nOffered, messageBatch, batchStartTime,
                    batchTimer, inactivityTimer, maxWaitTimer, timers, retryTime,
                    calls, exitedOnFailure, disposePc >>

Next ==
    \/ Offer
    \/ TimerFire
    \/ Dispose
    \/ HttpReply
    \/ Wake
    \/ DispatchDone
    \/ Tick

Spec == Init /\ [][Next]_vars


(* Fairness: the event loop runs a callback that is due, the clock         *)
(* advances, and the provider settles a request.  Each of these steps can  *)
(* be taken only a bounded number of times, so weak fairness of their      *)
(* disjunction is enough for all of them to happen.                        *)
Progress == Tick \/ TimerFire \/ Wake \/ HttpReply \/ DispatchDone

Fairness == WF_vars(Progress)

FairSpec == Init /\ [][Next]_vars /\ Fairness

(* ---------------------------- dispatcher ------------------------------ *)
(* processViolations (index.ts 179-207, 481-517) and the second half of     *)
(* triggerAnalysis (part_000 160-201), run on their own for one judge       *)
(* output.  A violation of index.ts is [id, mute], one of part_000 is       *)
(* [ids, action].  An entry of the log is [op, v, msg]: a capability call   *)
(* that was issued ("mute", "kick", "recall" = deleteMessage, "broadcast")  *)
(* or an audit entry pushed for forwarding ("forward"); v is the position   *)
(* of the violation in the judge output and msg the message it concerns.    *)
(* A bot for the platform of every message is taken to be online.           *)
MaxViolations == 2

\* an id the judge may name that is not in the batch
Unresolvable == 3

\* a channelId "platform:channel" as the pair of its two parts
Cid(platform, channel) == << platform, channel >>

\* the MessageInfo of message id: author, guild and channel as the middleware
\* recorded them
Message(id, t, userId, guildId, channelId) ==
    [messageId |-> id, timestamp |-> t, userId |-> userId, guildId |-> guildId,
     channelId |-> channelId]

\* the batches dispatched: two messages in arrival order, of two authors in one
\* channel
DispatchBatches ==
    { << Message(1, 0, "u1", "g1", Cid("a", "c1")),
         Message(2, t, "u2", "g1", Cid("a", "c1")) >> : t \in {0, 1} }

IdLists == { << 1 >>, << 2 >>, << Unresolvable >>, << Unresolvable, 2, 1 >> }

JudgeOutputs(variantName) ==
    IF variantName = "part"
       THEN UNION { [1..n -> [ids : IdLists, action : {-1, 0, 1}, user : {"u1"}]] :
                      n \in 0..MaxViolations }
    ELSE UNION { [1..n -> [id : {1, 2, Unresolvable}, mute : {0, 1}]] :
                   n \in 1..MaxViolations }

ActionSets(variantName) ==
    IF variantName = "part" THEN SUBSET {"recall", "mute", "forward", "kick"}
    ELSE SUBSET {"recall", "mute", "forward"}

\* new Map(originalMessages.map(msg => [msg.messageId, msg]))
MessageIds == { originalMessages[k].messageId : k \in 1..Len(originalMessages) }
MessageMap ==
    [id \in MessageIds |->
        CHOOSE m \in { originalMessages[k] : k \in 1..Len(originalMessages) } :
            m.messageId = id]

Entry(op, v, msg) == [op |-> op, v |-> v, msg |-> msg]

\* index.ts 184-186, 487-491: filter the violations whose message resolves, then
\* sort (stable) by the timestamp of that message
TimestampOf(v) == MessageMap[judgeOutput[v].id].timestamp

RECURSIVE InsertSorted(_, _)
InsertSorted(sorted, v) ==
    IF sorted = << >> THEN << v >>
    ELSE IF TimestampOf(v) < TimestampOf(sorted[Len(sorted)])
       THEN Append(InsertSorted(SubSeq(sorted, 1, Len(sorted) - 1), v),
                   sorted[Len(sorted)])
    ELSE Append(sorted, v)

RECURSIVE SortedViolations(_)
SortedViolations(n) ==
    IF n = 0 THEN << >>
    ELSE LET rest == SortedViolations(n - 1)
         IN  IF judgeOutput[n].id \in MessageIds THEN InsertSorted(rest, n)
             ELSE rest

\* index.ts 192-201, 503-511: what the loop body does for violation v
IndexOpsOf(v) ==
    LET id == judgeOutput[v].id
    IN  (IF "recall" \in Action THEN << Entry("recall", v, id) >> ELSE << >>)
        \o (IF "mute" \in Action /\ judgeOutput[v].mute > 0
               THEN << Entry("mute", v, id) >> ELSE << >>)
        \o (IF "forward" \in Action THEN << Entry("forward", v, id) >> ELSE << >>)

\* part_000 164: violation.ids.filter(id => messageMap.has(id)), whose first
\* member is firstValidMsgId
RECURSIVE ResolvedIds(_)
ResolvedIds(ids) ==
    IF ids = << >> THEN << >>
    ELSE (IF ids[1] \in MessageIds THEN << ids[1] >> ELSE << >>)
         \o ResolvedIds(Tail(ids))

\* a faulty selection that mutes on action >= 0: C13 must notice it
PunishNonNegative(v, representative) ==
    IF judgeOutput[v].action >= 0 /\ "mute" \in Action
       THEN << Entry("mute", v, representative) >>
    ELSE IF judgeOutput[v].action < 0 /\ "kick" \in Action
       THEN << Entry("kick", v, representative) >>
    ELSE << >>

\* part_000 169-173: mute or kick by the sign of violation.action
Punish(v, representative) ==
    IF judgeOutput[v].action > 0 /\ "mute" \in Action
       THEN << Entry("mute", v, representative) >>
    ELSE IF judgeOutput[v].action < 0 /\ "kick" \in Action
       THEN << Entry("kick", v, representative) >>
    ELSE << >>

\* a faulty recall that deletes the representative message only: C21 must
\* notice it
RecallFirstOnly(v, resolved) ==
    IF "recall" \in Action THEN << Entry("recall", v, resolved[1]) >> ELSE << >>

\* part_000 174-181: deleteMessage for the ids that resolve, in the judge's order
Recall(v, resolved) ==
    IF "recall" \in Action
       THEN [k \in 1..Len(resolved) |-> Entry("recall", v, resolved[k])]
    ELSE << >>

\* part_000 164-199: what the loop body does for violation v
PartOpsOf(v) ==
    LET resolved == ResolvedIds(judgeOutput[v].ids)
    IN  IF resolved = << >> THEN << >>
        ELSE Punish(v, resolved[1])
             \o Recall(v, resolved)
             \o (IF "forward" \in Action
                    THEN << Entry("forward", v, resolved[1]) >> ELSE << >>)

\* the violations in the order the loop visits them
VisitOrder ==
    IF variant = "part" THEN [k \in 1..Len(judgeOutput) |-> k]
    ELSE SortedViolations(Len(judgeOutput))

OpsOf(v) == IF variant = "part" THEN PartOpsOf(v) ELSE IndexOpsOf(v)

\* split(':', 1)[0] of a channelId
PlatformOf(channelId) == channelId[1]

\* part_000 164-166 (representativeMsg), index.ts 188, 499 (msg): the message
\* whose fields the loop body uses for violation v
Representative(v) ==
    IF variant = "part" THEN MessageMap[ResolvedIds(judgeOutput[v].ids)[1]]
    ELSE MessageMap[judgeOutput[v].id]

\* part_000 167, index.ts 189-190, 500-501: the bot every capability call of
\* the loop body for violation v is issued on, named by its platform
BotOf(v) == PlatformOf(Representative(v).channelId)

\* the guild and the user muteGuildMember / kickGuildMember is called with:
\* part_000 170, 172 (representativeMsg.guildId, violation.user), index.ts 193,
\* 504 (msg.guildId, msg.userId)
PunishedGuild(v) == Representative(v).guildId
PunishedUser(v) ==
    IF variant = "part" THEN judgeOutput[v].user ELSE Representative(v).userId

\* a faulty loop that ends at the first violation none of whose ids resolves
\* (a "return" where the code has "continue"): C14 must notice it
RECURSIVE LoopOpsReturns(_)
LoopOpsReturns(order) ==
    IF order = << >> THEN << >>
    ELSE IF variant = "part" /\ ResolvedIds(judgeOutput[order[1]].ids) = << >>
       THEN << >>
    ELSE OpsOf(order[1]) \o LoopOpsReturns(Tail(order))

RECURSIVE LoopOps(_)
LoopOps(order) ==
    IF order = << >> THEN << >> ELSE OpsOf(order[1]) \o LoopOps(Tail(order))

\* index.ts 203-206, 513-516, part_000 201: one broadcast when an audit entry
\* was pushed (config.Target is set)
Broadcast(ops) ==
    IF \E k \in 1..Len(ops) : ops[k].op = "forward"
       THEN << Entry("broadcast", 0, 0) >> ELSE << >>

\* index.ts 180, 482, part_000 160: the early return, then the loop and the
\* broadcast
Ops ==
    IF Action = {} \/ Len(judgeOutput) = 0 THEN << >>
    ELSE LET loop == LoopOps(VisitOrder) IN loop \o Broadcast(loop)

\* an entry the dispatcher awaits; pushing an audit entry does not suspend
Awaited(e) == e.op # "forward"

\* run from op p to the next await, or to the end
RunFrom(d, p) ==
    LET stops == { q \in p..Len(Ops) : Awaited(Ops[q]) }
        q == IF stops = {} THEN Len(Ops) + 1 ELSE SetMin(stops)
    IN  [d EXCEPT !.pc = IF q > Len(Ops) THEN "done" ELSE "await",
                  !.pos = q,
                  !.log = @ \o SubSeq(Ops, p, Min(q, Len(Ops)))]

\* the awaited capability call is fulfilled
OnFulfilled(d) == RunFrom(d, d.pos + 1)

\* a faulty call without ".catch": the rejection is thrown out of the await and
\* ends the dispatcher: C16 must notice it
OnRejectedThrows(d) == [d EXCEPT !.pc = "done", !.rejected = TRUE, !.raised = TRUE]

\* the awaited capability call is rejected: ".catch(e => logger.warn(...))"
\* turns the rejection into a fulfilled promise
OnRejected(d) == RunFrom([d EXCEPT !.rejected = TRUE], d.pos + 1)

DispatchInit ==
    /\ variant \in {"single", "two", "part"}
    /\ batchMode = FALSE
    /\ now = 0
    /\ nOffered = 0
    /\ messageBatch = << >>
    /\ batchStartTime = Null
    /\ batchTimer = Null
    /\ inactivityTimer = Null
    /\ maxWaitTimer = Null
    /\ timers = {}
    /\ retryTime = 0
    /\ calls = << >>
    /\ exitedOnFailure = FALSE
    /\ disposePc = "idle"
    /\ originalMessages \in DispatchBatches
    /\ judgeOutput \in JudgeOutputs(variant)
    /\ Action \in ActionSets(variant)
    /\ dispatch = [pc |-> "idle", pos |-> 0, log |-> << >>,
                   rejected |-> FALSE, raised |-> FALSE]
    /\ IngestIdle
    /\ CoerceIdle

accVars == << variant, batchMode, now, nOffered, messageBatch, batchStartTime,
              batchTimer, inactivityTimer, maxWaitTimer, timers, retryTime,
              calls, exitedOnFailure, disposePc >>

\* the dispatcher is entered and runs to its first capability call
DispatchStart ==
    /\ dispatch.pc = "idle"
    /\ dispatch' = RunFrom(dispatch, 1)
    /\ UNCHANGED << accVars, ingestVars, coerceVars, originalMessages, judgeOutput, Action >>

\* the capability call that is awaited settles
CapabilitySettles ==
    /\ dispatch.pc = "await"
    /\ \E fulfilled \in BOOLEAN :
           dispatch' = IF fulfilled THEN OnFulfilled(dispatch)
                       ELSE OnRejected(dispatch)
    /\ UNCHANGED << accVars, ingestVars, coerceVars, originalMessages, judgeOutput, Action >>

DispatchNext == DispatchStart \/ CapabilitySettles

DispatchSpec == DispatchInit /\ [][DispatchNext]_vars

(* The dispatcher on batches whose messages are of two authors, from one or *)
(* two guilds and from channels of one or two platforms, with a judge that  *)
(* names any user.                                                          *)
RouteBatches ==
    { << Message(1, 0, "u1", "g1", Cid("a", "c1")),
         Message(2, 1, "u2", guildId, channelId) >> :
        guildId \in {"g1", "g2"}, channelId \in {Cid("a", "c1"), Cid("b", "c2")} }

RouteOutputs(variantName) ==
    IF variantName = "part"
       THEN UNION { [1..n -> [ids : {<< 1 >>, << 2 >>, << 1, 2 >>, << 2, 1 >>},
                              action : {-1, 1},
                              user : {"u1", "u2", "x"}]] :
                      n \in 1..MaxViolations }
    ELSE JudgeOutputs(variantName)

RouteInit ==
    /\ variant \in {"single", "two", "part"}
    /\ batchMode = FALSE
    /\ now = 0
    /\ nOffered = 0
    /\ messageBatch = << >>
    /\ batchStartTime = Null
    /\ batchTimer = Null
    /\ inactivityTimer = Null
    /\ maxWaitTimer = Null
    /\ timers = {}
    /\ retryTime = 0
    /\ calls = << >>
    /\ exitedOnFailure = FALSE
    /\ disposePc = "idle"
    /\ originalMessages \in RouteBatches
    /\ judgeOutput \in RouteOutputs(variant)
    /\ Action \in SUBSET {"recall", "mute", "kick"} \ {{}}
    /\ variant # "part" => "kick" \notin Action
    /\ dispatch = [pc |-> "idle", pos |-> 0, log |-> << >>,
                   rejected |-> FALSE, raised |-> FALSE]
    /\ IngestIdle
    /\ CoerceIdle

RouteSpec == RouteInit /\ [][DispatchNext]_vars

(* ------------------------- ingestion filter --------------------------- *)
(* The middleware called with any session, the timers running, no judge     *)
(* reply arriving.  config.whitelist is {"w"} and config.Target is "t".      *)
MaxSeen == 4

whitelist == {"w"}
Target == "t"

\* the sessions the host delivers: guildId "" is a missing guild
Sessions ==
    [isDirect : BOOLEAN, guildId : {"", "g"}, isBot : BOOLEAN,
     userId : {"u", "w"}, cid : {"c", Target}]

\* a faulty filter that lets the Target channel through: C17 must notice it
ExcludedButTarget(s) ==
    s.isDirect \/ s.guildId = "" \/ s.isBot \/ s.userId \in whitelist

\* index.ts 228, 563, part_000 208: the condition under which the middleware
\* returns next() at once
Excluded(s) ==
    s.isDirect \/ s.guildId = "" \/ s.isBot \/ s.userId \in whitelist
        \/ s.cid = Target

\* ctx.middleware is called with a session
Deliver ==
    \E s \in Sessions :
        /\ nSeen < MaxSeen
        /\ session' = s
        /\ nSeen' = nSeen + 1
        /\ IF Excluded(s)
              THEN UNCHANGED << nOffered, messageBatch, batchStartTime, batchTimer,
                                inactivityTimer, maxWaitTimer, timers, calls >>
           ELSE /\ nOffered < MaxMsgs
                /\ nOffered' = nOffered + 1
                /\ Commit(Middleware(Acc, NewMessage))
        /\ UNCHANGED << variant, batchMode, now, retryTime, exitedOnFailure,
                        disposePc, dispatchVars, coerceVars >>

IngestNext == Deliver \/ TimerFire \/ Tick

IngestSpec == Init /\ [][IngestNext]_vars

(* -------------------------- reply coercion ---------------------------- *)
(* What one attempt of callAI (index.ts 147-165) makes of the content of a *)
(* reply, over every short content and every content holding one fenced    *)
(* block.                                                                   *)

MaxLen == 3

SeqsUpTo(T, n) == UNION { [1..k -> T] : k \in 0..n }

\* what stands inside a fenced block, and before and after it
Body == SeqsUpTo({"[", "]", "r", "q"}, MaxLen - 1)
Around == SeqsUpTo({"[", "]", "q"}, MaxLen - 1)

Contents ==
    SeqsUpTo(Tokens, MaxLen)
    \cup { pre \o << "fo" >> \o body \o << "fc" >> \o post :
             pre \in Around, body \in Body, post \in Around }

CoerceInit ==
    /\ variant = "single"
    /\ batchMode = FALSE
    /\ now = 0
    /\ nOffered = 0
    /\ messageBatch = << >>
    /\ batchStartTime = Null
    /\ batchTimer = Null
    /\ inactivityTimer = Null
    /\ maxWaitTimer = Null
    /\ timers = {}
    /\ retryTime = 0
    /\ calls = << >>
    /\ exitedOnFailure = FALSE
    /\ disposePc = "idle"
    /\ DispatcherIdle
    /\ IngestIdle
    /\ replyText \in Contents
    /\ coerced = << >>

\* index.ts 147-165 on a reply with this content
Parse ==
    /\ coerced = << >>
    /\ coerced' = << CoerceSingle([ok |-> TRUE, content |-> replyText]) >>
    /\ UNCHANGED << accVars, dispatchVars, ingestVars, replyText >>

CoerceNext == Parse

CoerceSpec == CoerceInit /\ [][CoerceNext]_vars


(* ------------------------- observations ------------------------------- *)
\* how many times message id was passed to the judge, over all calls
Occurrences(id) ==
    Cardinality({ p \in { << i, k >> : i \in 1..Len(calls), k \in 1..MaxMsgs } :
                    /\ p[2] <= Len(calls[p[1]].aiPayload)
                    /\ calls[p[1]].aiPayload[p[2]] = id })

Last(q) == q[Len(q)]

\* a step that starts exactly one new call
StartsOneCall == Len(calls') = Len(calls) + 1

\* a step in which the middleware accepts a message
OfferStep == nOffered' = nOffered + 1


(* ------------------------------ claims -------------------------------- *)

\* C1: two-timer accumulator: no message is passed to the judge twice, every
\* id passed is one that was offered, and once pending is empty again every
\* offered message has been passed in exactly one batch.
C1_NoLossNoDuplication ==
    variant = "two" =>
        /\ \A i \in 1..Len(calls) : \A k \in 1..Len(calls[i].aiPayload) :
               calls[i].aiPayload[k] \in 1..nOffered
        /\ \A id \in 1..nOffered : Occurrences(id) <= 1
        /\ messageBatch = << >> => \A id \in 1..nOffered : Occurrences(id) = 1

\* C1 witness: messages were offered between timer firings, a timer flushed
\* two of them together, and pending is empty again.
C1_Witness ==
    /\ variant = "two"
    /\ nOffered >= 2
    /\ messageBatch = << >>
    /\ \E i \in 1..Len(calls) :
           calls[i].origin \in {"inactivity", "maxWait"} /\ Len(calls[i].aiPayload) = 2

\* C2 (as claimed): single-timer accumulator with shutdown hook: no message is
\* ever passed to two different callAI invocations.
C2_NoMessageInTwoBatches ==
    variant = "single" => \A id \in 1..nOffered : Occurrences(id) <= 1

\* C3: when 'dispose' runs, the pending timer is cancelled; a non-empty pending
\* batch is submitted whole and the handler completes only after that call's
\* analysis and dispatch are done; an empty one submits nothing.
C3_DisposeStep ==
    (disposePc = "idle" /\ disposePc' # "idle") =>
        /\ \A t \in timers' : t.kind # "batch"
        /\ IF messageBatch # << >>
              THEN /\ StartsOneCall
                   /\ Last(calls').aiPayload = AiPayload(messageBatch)
                   /\ Last(calls').origin = "dispose"
                   /\ \A i \in 1..Len(calls) : calls'[i] = calls[i]
                   /\ disposePc' = "awaiting"
              ELSE calls' = calls /\ disposePc' = "done"

C3_DisposeDone ==
    disposePc = "done" =>
        \A i \in 1..Len(calls) : calls[i].origin = "dispose" => calls[i].pc = "done"

C3_ShutdownDrain == [][C3_DisposeStep]_vars /\ []C3_DisposeDone

\* C3 witness: the handler has completed after draining a batch of two.
C3_Witness ==
    /\ disposePc = "done"
    /\ \E i \in 1..Len(calls) :
           calls[i].origin = "dispose" /\ Len(calls[i].aiPayload) = 2

\* C4: the offer that makes pending reach maxBatchSize submits, itself, exactly
\* one batch holding the pending messages and the new one in arrival order, and
\* leaves pending empty with no timer armed.
C4_SizeStep ==
    (variant \in {"single", "two"} /\ OfferStep
       /\ Len(messageBatch) = maxBatchSize - 1) =>
        /\ StartsOneCall
        /\ Last(calls').aiPayload = Append(AiPayload(messageBatch), nOffered')
        /\ Last(calls').origin = "size"
        /\ \A i \in 1..Len(calls) : calls'[i] = calls[i]
        /\ messageBatch' = << >>
        /\ timers' = {}
        /\ batchTimer' = Null /\ inactivityTimer' = Null /\ maxWaitTimer' = Null

C4_SizeThreshold == [][C4_SizeStep]_vars

\* C4 witness: a full batch was submitted by an offer, nothing pending, no timer.
C4_Witness ==
    /\ variant \in {"single", "two"}
    /\ calls # << >>
    /\ Last(calls).origin = "size"
    /\ Len(Last(calls).aiPayload) = maxBatchSize
    /\ messageBatch = << >>
    /\ timers = {}


\* arrival of the first and of the last pending message
FirstArrival == messageBatch[1].timestamp
LastArrival == Last(messageBatch).timestamp
EarliestDue == SetMin({ t.due : t \in timers })
TimerOrigins == {"batch", "inactivity", "maxWait"}

\* C5: with maxBatchWaitTime >= inactivityTimeout, every accepted message moves
\* the inactivity deadline to inactivityTimeout after it (never past the
\* max-wait deadline), and a timer flush submits exactly the pending messages as
\* one batch, no earlier than inactivityTimeout and no later than
\* maxBatchWaitTime after the first arrival.
C5_Deadline ==
    (variant \in {"single", "two"} /\ disposePc = "idle" /\ messageBatch # << >>
       /\ maxBatchWaitTime >= inactivityTimeout) =>
        /\ timers # {}
        /\ EarliestDue = Min(LastArrival + inactivityTimeout,
                             FirstArrival + maxBatchWaitTime)
        /\ variant = "two" =>
               /\ inactivityTimer = LastArrival + inactivityTimeout
               /\ [kind |-> "inactivity", due |-> inactivityTimer] \in timers

C5_TimerFlushStep ==
    (variant \in {"single", "two"} /\ disposePc = "idle"
       /\ maxBatchWaitTime >= inactivityTimeout
       /\ Len(calls') > Len(calls) /\ Last(calls').origin \in TimerOrigins) =>
        /\ StartsOneCall
        /\ messageBatch # << >>
        /\ Len(messageBatch) < maxBatchSize
        /\ Last(calls').aiPayload = AiPayload(messageBatch)
        /\ messageBatch' = << >>
        /\ timers' = {}
        /\ FirstArrival + inactivityTimeout <= now
        /\ now <= FirstArrival + maxBatchWaitTime

C5_InactivityFlush == []C5_Deadline /\ [][C5_TimerFlushStep]_vars

\* C5 witness: two messages, the second postponing the deadline, were flushed
\* together by the inactivity timer before the max-wait deadline.
C5_Witness ==
    /\ variant = "two"
    /\ maxBatchWaitTime >= inactivityTimeout
    /\ \E i \in 1..Len(calls) :
           calls[i].origin = "inactivity" /\ Len(calls[i].aiPayload) = 2

\* C6: a non-empty pending batch always has a timer due no later than
\* maxBatchWaitTime after its first message arrived, later offers never move
\* that deadline, and the clock never passes it with the batch still pending.
C6_MaxWaitBackstop ==
    (variant \in {"single", "two"} /\ disposePc = "idle" /\ messageBatch # << >>) =>
        /\ now <= FirstArrival + maxBatchWaitTime
        /\ \E t \in timers : t.due <= FirstArrival + maxBatchWaitTime
        /\ variant = "two" =>
               /\ maxWaitTimer = FirstArrival + maxBatchWaitTime
               /\ [kind |-> "maxWait", due |-> maxWaitTimer] \in timers

\* C6 witness: messages kept arriving and the max-wait timer flushed them.
C6_Witness ==
    /\ variant = "two"
    /\ \E i \in 1..Len(calls) :
           calls[i].origin = "maxWait" /\ Len(calls[i].aiPayload) >= 2

\* C7 (as claimed): part_000, any batchMode: a non-empty pending batch is always
\* going to be flushed by a timer (the size threshold needs further messages),
\* so a flush timer is armed whenever the batch is left pending.
C7_PendingHasFlushTimer ==
    (variant = "part" /\ disposePc = "idle" /\ messageBatch # << >>) =>
        \E t \in timers : t.kind = "batch"

\* C8 (as claimed): part_000 judge loop: the loop never exits on a reply from
\* which no JSON array can be parsed.
C8_UnparsableReplyRetried ==
    variant = "part" => ~exitedOnFailure

\* a step in which call i sends its HTTP request
Issues(i) ==
    /\ i \in 1..Len(calls')
    /\ calls'[i].pc = "http"
    /\ (i > Len(calls) \/ calls[i].pc # "http")

\* C9 (as claimed): no HTTP attempt is issued while now < retryTime.
C9_NoAttemptBeforeRetryTime ==
    [][\A i \in 1..(MaxMsgs + 1) : Issues(i) => now' >= retryTime']_vars

\* C10: callAI (single) never returns on a failed attempt; what it hands to
\* processViolations is the parsed array; and, the provider replying in the end
\* with a parsable array, every call that was started returns.
C10_NeverReturnsOnFailure ==
    variant = "single" =>
        /\ ~exitedOnFailure
        /\ \A i \in 1..Len(calls) :
               calls[i].pc = "dispatch" => ParsesAsArray(calls[i].violations)

C10_BatchNeverDropped ==
    /\ []C10_NeverReturnsOnFailure
    /\ \A i \in 1..(MaxMsgs + 1) :
           (variant = "single" /\ i <= Len(calls)) ~>
               (i <= Len(calls) /\ calls[i].pc \in {"dispatch", "done"})

\* C10 witness: a call whose first attempt failed is handing its array to
\* processViolations.
C10_Witness ==
    /\ variant = "single"
    /\ \E i \in 1..Len(calls) : calls[i].pc = "dispatch" /\ calls[i].attempt >= 1


\* part_000 214-215: "await triggerAnalysis()": the middleware that made pending
\* reach maxBatchSize calls next() only when the judge loop and the dispatch of
\* that batch are over.  The other revisions call triggerAnalysis() unawaited.
AwaitedByMiddleware(c) == variant = "part" /\ c.origin = "size"

\* C11 (as claimed): part_000: the handling of an accepted message is never
\* suspended on the judge request, the retry-delay wait or the dispatch.
C11_DeliveryNeverSuspends ==
    \A i \in 1..Len(calls) :
        AwaitedByMiddleware(calls[i]) => calls[i].pc \notin {"http", "sleep", "dispatch"}


(* ----------------------- claims on the dispatcher --------------------- *)
\* timestamp of the first message of violation v that resolves in the batch
FirstResolvedTimestamp(v) ==
    IF variant = "part"
       THEN MessageMap[ResolvedIds(judgeOutput[v].ids)[1]].timestamp
    ELSE TimestampOf(v)

\* the entries of the log that belong to violations come in ascending order of
\* the timestamp of the violation's first resolved message
AscendingTimestampOrder ==
    \A p, q \in 1..Len(dispatch.log) :
        (p < q /\ dispatch.log[p].v # 0 /\ dispatch.log[q].v # 0) =>
            FirstResolvedTimestamp(dispatch.log[p].v)
                <= FirstResolvedTimestamp(dispatch.log[q].v)

\* C12 (as claimed): part_000 dispatcher: violations are processed in ascending
\* order of the timestamp of their first resolved message, whatever order the
\* judge listed them in.
C12_PartProcessesByTimestamp == variant = "part" => AscendingTimestampOrder


\* the operations the log holds for violation v
OpsLogged(v) ==
    { dispatch.log[p].op : p \in { p \in 1..Len(dispatch.log) : dispatch.log[p].v = v } }

\* C13: part_000 dispatcher, any Action set: muteGuildMember is called only for a
\* violation with action > 0, kickGuildMember only for one with action < 0 (so
\* neither for action = 0), and never both for one violation.
C13_SignSelectsMuteOrKick ==
    variant = "part" =>
        \A v \in 1..Len(judgeOutput) :
            /\ "mute" \in OpsLogged(v) => judgeOutput[v].action > 0
            /\ "kick" \in OpsLogged(v) => judgeOutput[v].action < 0
            /\ ~({"mute", "kick"} \subseteq OpsLogged(v))

\* C13 witness: with mute and kick both enabled, one violation was muted, another
\* kicked, and the dispatch is over.
C13_Witness ==
    /\ variant = "part"
    /\ {"mute", "kick"} \subseteq Action
    /\ dispatch.pc = "done"
    /\ \E v, w \in 1..Len(judgeOutput) :
           /\ OpsLogged(v) \cap {"mute", "kick"} = {"mute"}
           /\ OpsLogged(w) \cap {"mute", "kick"} = {"kick"}


\* some id that violation v names is in the batch
Resolves(v) ==
    IF variant = "part" THEN \E k \in 1..Len(judgeOutput[v].ids) :
                                 judgeOutput[v].ids[k] \in MessageIds
    ELSE judgeOutput[v].id \in MessageIds

\* the entries the log holds for violation v
EntriesLogged(v) ==
    { dispatch.log[p] : p \in { p \in 1..Len(dispatch.log) : dispatch.log[p].v = v } }

\* what the configuration asks for violation v, looking at no other violation
When(cond, e) == IF cond THEN { e } ELSE {}

EntriesDue(v) ==
    IF variant = "part"
       THEN LET ids == judgeOutput[v].ids
                hits == { k \in 1..Len(ids) : ids[k] \in MessageIds }
                first == ids[SetMin(hits)]
            IN  When("mute" \in Action /\ judgeOutput[v].action > 0,
                     Entry("mute", v, first))
                \cup When("kick" \in Action /\ judgeOutput[v].action < 0,
                          Entry("kick", v, first))
                \cup (IF "recall" \in Action
                         THEN { Entry("recall", v, ids[k]) : k \in hits } ELSE {})
                \cup When("forward" \in Action, Entry("forward", v, first))
    ELSE LET id == judgeOutput[v].id
         IN  When("recall" \in Action, Entry("recall", v, id))
             \cup When("mute" \in Action /\ judgeOutput[v].mute > 0,
                       Entry("mute", v, id))
             \cup When("forward" \in Action, Entry("forward", v, id))

\* C14: a violation none of whose ids resolves in the batch causes no capability
\* call and no audit entry, and when the dispatch is over every other violation
\* of the same judge output has got exactly the entries the configuration asks
\* for it alone.
C14_UnresolvableRecordDropped ==
    \A v \in 1..Len(judgeOutput) :
        /\ ~Resolves(v) => EntriesLogged(v) = {}
        /\ (dispatch.pc = "done" /\ Resolves(v)
              /\ \E w \in 1..Len(judgeOutput) : ~Resolves(w))
             => EntriesLogged(v) = EntriesDue(v)

\* C14 witness: the judge listed an unresolvable violation before a resolvable
\* one, and the dispatch ended with entries for the latter.
C14_Witness ==
    /\ dispatch.pc = "done"
    /\ \E v, w \in 1..Len(judgeOutput) :
           v < w /\ ~Resolves(v) /\ Resolves(w) /\ EntriesLogged(w) # {}


\* where in the log the entry op of violation v stands, 0 when it is not there
PositionOf(op, v) ==
    LET at == { p \in 1..Len(dispatch.log) :
                  dispatch.log[p].op = op /\ dispatch.log[p].v = v }
    IN  IF at = {} THEN 0 ELSE SetMin(at)

\* C15 (as claimed): index.ts processViolations: for a violation that is both
\* muted and recalled, muteGuildMember is issued first, then deleteMessage, then
\* the audit entry.
C15_MuteThenRecallThenForward ==
    variant \in {"single", "two"} =>
        \A v \in 1..Len(judgeOutput) :
            /\ (PositionOf("mute", v) # 0 /\ PositionOf("recall", v) # 0)
                 => PositionOf("mute", v) < PositionOf("recall", v)
            /\ (PositionOf("recall", v) # 0 /\ PositionOf("forward", v) # 0)
                 => PositionOf("recall", v) < PositionOf("forward", v)

\* C16: no rejected capability call raises an error out of the dispatcher; and
\* when a dispatch in which a call was rejected is over, every entry due for
\* every resolvable violation was issued, and the broadcast with them if an
\* audit entry was pushed.
C16_RejectionIsolated ==
    /\ ~dispatch.raised
    /\ (dispatch.pc = "done" /\ dispatch.rejected) =>
           /\ \A v \in 1..Len(judgeOutput) :
                  Resolves(v) => EntriesDue(v) \subseteq EntriesLogged(v)
           /\ (\E v \in 1..Len(judgeOutput) : PositionOf("forward", v) # 0)
                  => PositionOf("broadcast", 0) # 0

\* C16 witness: a dispatch with a rejected call is over after at least three
\* capability calls, the broadcast among them.
C16_Witness ==
    /\ dispatch.pc = "done"
    /\ dispatch.rejected
    /\ PositionOf("broadcast", 0) # 0
    /\ Cardinality({ p \in 1..Len(dispatch.log) : Awaited(dispatch.log[p]) }) >= 3


(* -------------------- claims on the ingestion filter ------------------ *)
\* C17: a session that is direct, has no guild, is bot-authored, comes from a
\* whitelisted user or from the Target channel leaves pending, the timers, the
\* batch start time and the calls as they were; the message of any other
\* session is appended to pending, or is the last of the batch flushed in that
\* same step.
C17_DeliverStep ==
    (nSeen' = nSeen + 1) =>
        IF \/ session'.isDirect
           \/ session'.guildId = ""
           \/ session'.isBot
           \/ session'.userId \in whitelist
           \/ session'.cid = Target
           THEN UNCHANGED << nOffered, messageBatch, batchStartTime, batchTimer,
                             inactivityTimer, maxWaitTimer, timers, calls >>
        ELSE /\ nOffered' = nOffered + 1
             /\ \/ /\ messageBatch' = Append(messageBatch, NewMessage)
                   /\ calls' = calls
                \/ /\ messageBatch' = << >>
                   /\ StartsOneCall
                   /\ Last(calls').aiPayload
                        = Append(AiPayload(messageBatch), nOffered + 1)

C17_IngestionFilter == [][C17_DeliverStep]_vars

\* C17 witness: with a batch pending and its timer armed, a message from the
\* Target channel, excluded for that reason alone, has just been delivered.
C17_Witness ==
    /\ nSeen > nOffered
    /\ messageBatch # << >>
    /\ timers # {}
    /\ session = [isDirect |-> FALSE, guildId |-> "g", isBot |-> FALSE,
                  userId |-> "u", cid |-> Target]


(* ------------------ further claims on the accumulator ----------------- *)
\* a step of the two-timer revision in which a timer callback runs
TimerFiresTwo == variant = "two" /\ nOffered' = nOffered /\ timers' # timers

\* C18: two-timer revision: the step in which the inactivity or the max-wait
\* timer fires on a non-empty pending batch submits the whole batch as one call,
\* leaves no timer armed, both handles null and pending empty; so while nothing
\* is pending no timer is left that could flush again.
C18_TimerFiresStep ==
    (TimerFiresTwo /\ messageBatch # << >>) =>
        /\ StartsOneCall
        /\ Last(calls').aiPayload = AiPayload(messageBatch)
        /\ Last(calls').origin \in {"inactivity", "maxWait"}
        /\ \A i \in 1..Len(calls) : calls'[i] = calls[i]
        /\ messageBatch' = << >>
        /\ timers' = {}
        /\ inactivityTimer' = Null /\ maxWaitTimer' = Null

C18_NoTimerWhenEmpty ==
    (variant = "two" /\ messageBatch = << >>) =>
        timers = {} /\ inactivityTimer = Null /\ maxWaitTimer = Null

C18_WholeBatchOnTimer == [][C18_TimerFiresStep]_vars /\ []C18_NoTimerWhenEmpty

\* C18 witness: the inactivity timer flushed the one pending message, and the
\* clock ran to its end with no timer armed and no second call.
C18_Witness ==
    /\ variant = "two"
    /\ Len(calls) = 1
    /\ calls[1].origin = "inactivity"
    /\ nOffered = 1
    /\ messageBatch = << >>
    /\ timers = {}
    /\ now = MaxTime


\* C19: a failure of a judge loop raises its own attempt counter by one and sets
\* the shared retryTime to the time of the failure + 20000 ms + 10000 ms times
\* that counter (RetryBase and RetryStep in the unit of the clock); the counter
\* of a loop that starts is 0.
C19_FailureStep ==
    \A i \in 1..Len(calls') :
        IF i <= Len(calls)
           THEN calls'[i].attempt > calls[i].attempt =>
                    /\ calls'[i].attempt = calls[i].attempt + 1
                    /\ retryTime' = now + RetryBase + calls'[i].attempt * RetryStep
                    /\ \A j \in 1..Len(calls) :
                           j # i => calls'[j].attempt <= calls[j].attempt
        ELSE calls'[i].attempt = 0

C19_BackoffSchedule == [][C19_FailureStep]_vars

\* C19 witness: a loop has failed twice in a row and waits for the retryTime its
\* second failure set.
C19_Witness ==
    \E i \in 1..Len(calls) :
        /\ calls[i].attempt = 2
        /\ calls[i].pc = "sleep"
        /\ calls[i].wake = retryTime
        /\ retryTime > now


(* ----------------------- claims on reply coercion --------------------- *)

\* C20: callAI returns the body of the first ```json block when that is a JSON
\* array, else the text from the first '[' to the last ']' when that is one,
\* else the whole reply when that is one; no such candidate, or an empty
\* reply, is a failure of the attempt.
C20_FirstArrayCandidate ==
    coerced # << >> =>
        LET content == replyText
            result == coerced[1]
        IN  IF content = << >> THEN result = Failed
            ELSE IF FenceMatches(content) /\ ParsesAsArray(FenceBody(content))
               THEN result = Returned(FenceBody(content))
            ELSE IF HasBracketSpan(content) /\ ParsesAsArray(BracketSpan(content))
               THEN result = Returned(BracketSpan(content))
            ELSE IF ParsesAsArray(content) THEN result = Returned(content)
            ELSE result = Failed

\* C20 witness: the fenced block sits inside a string of an array, so that the
\* block's body and the whole reply are two different JSON arrays; callAI has
\* returned the body.
C20_Witness ==
    /\ coerced # << >>
    /\ FenceMatches(replyText)
    /\ ParsesAsArray(FenceBody(replyText))
    /\ ParsesAsArray(replyText)
    /\ HasBracketSpan(replyText)
    /\ BracketSpan(replyText) = replyText
    /\ FenceBody(replyText) # replyText
    /\ coerced[1] = Returned(FenceBody(replyText))


(* ------------------- claims on the dispatcher (2) --------------------- *)

\* how many deleteMessage calls the log holds for message id under violation v
RecallsLogged(v, id) ==
    Cardinality({ p \in 1..Len(dispatch.log) :
                    /\ dispatch.log[p].op = "recall"
                    /\ dispatch.log[p].v = v
                    /\ dispatch.log[p].msg = id })

\* how often violation v names message id
TimesNamed(v, id) ==
    Cardinality({ k \in 1..Len(judgeOutput[v].ids) : judgeOutput[v].ids[k] = id })

\* C21: part_000 with 'recall' enabled: when the dispatch is over, every
\* violation with an id in the batch has got one deleteMessage for each of its
\* ids that is in the batch, the first and the others alike, and at no time is
\* there a deleteMessage for an id that is not in the batch.
C21_RecallEveryResolvingId ==
    (variant = "part" /\ "recall" \in Action) =>
        \A v \in 1..Len(judgeOutput) :
            /\ RecallsLogged(v, Unresolvable) = 0
            /\ (dispatch.pc = "done" /\ Resolves(v)) =>
                   \A id \in MessageIds : RecallsLogged(v, id) = TimesNamed(v, id)

\* C21 witness: a violation names an id that is not in the batch and then two
\* that are; the dispatch is over and both were deleted.
C21_Witness ==
    /\ variant = "part"
    /\ "recall" \in Action
    /\ dispatch.pc = "done"
    /\ \E v \in 1..Len(judgeOutput) :
           /\ judgeOutput[v].ids = << Unresolvable, 2, 1 >>
           /\ RecallsLogged(v, 2) = 1
           /\ RecallsLogged(v, 1) = 1


(* ------------------- claims on the accumulator (2) -------------------- *)

\* what is left of maxBatchWaitTime for the batch the offered message joins
MaxWaitLeft ==
    maxBatchWaitTime
    - (now - (IF messageBatch = << >> THEN now ELSE batchStartTime))

\* C22: single-timer accumulator, an accepted message that leaves the batch
\* below maxBatchSize: with no max-wait time left the offer itself submits the
\* pending messages and the new one and leaves no timer; otherwise it submits
\* nothing and leaves exactly one timer, due after the strictly positive delay
\* min(inactivityTimeout, max-wait time left).
C22_OfferBelowSizeStep ==
    (variant = "single" /\ OfferStep /\ Len(messageBatch) + 1 < maxBatchSize) =>
        IF MaxWaitLeft <= 0
           THEN /\ StartsOneCall
                /\ Last(calls').aiPayload = Append(AiPayload(messageBatch), nOffered')
                /\ messageBatch' = << >>
                /\ timers' = {}
                /\ batchTimer' = Null
        ELSE /\ Len(calls') = Len(calls)
             /\ AiPayload(messageBatch') = Append(AiPayload(messageBatch), nOffered')
             /\ Min(inactivityTimeout, MaxWaitLeft) > 0
             /\ batchTimer' = now + Min(inactivityTimeout, MaxWaitLeft)
             /\ timers' = { [kind |-> "batch", due |-> batchTimer'] }

C22_OverdueFlushesAtOnce == [][C22_OfferBelowSizeStep]_vars

\* C22 witness: an offer found no max-wait time left and submitted the batch
\* itself, below the size threshold.
C22_Witness ==
    /\ variant = "single"
    /\ calls # << >>
    /\ Last(calls).origin = "overdue"
    /\ Len(Last(calls).aiPayload) < maxBatchSize
    /\ messageBatch = << >>
    /\ timers = {}


\* a step in which a timer callback runs
TimerStep == nOffered' = nOffered /\ disposePc' = disposePc /\ timers' # timers

\* C23: index.ts, both accumulators: after an offer (a size flush included) and
\* after a timer callback, the single-timer accumulator has its timer armed, and
\* the handle of that timer in batchTimer, exactly when messages are pending;
\* the two-timer accumulator has the inactivity and the max-wait timer armed,
\* with their handles, exactly when messages are pending; otherwise no timer is
\* armed and every handle is null.
C23_OperationStep ==
    (variant \in {"single", "two"} /\ (OfferStep \/ TimerStep)) =>
        IF messageBatch' = << >>
           THEN /\ timers' = {}
                /\ batchTimer' = Null
                /\ inactivityTimer' = Null
                /\ maxWaitTimer' = Null
        ELSE IF variant = "single"
           THEN /\ batchTimer' # Null
                /\ timers' = { [kind |-> "batch", due |-> batchTimer'] }
        ELSE /\ inactivityTimer' # Null
             /\ maxWaitTimer' # Null
             /\ timers' = { [kind |-> "inactivity", due |-> inactivityTimer'],
                            [kind |-> "maxWait", due |-> maxWaitTimer'] }

C23_TimerArmedIffPending == [][C23_OperationStep]_vars

\* C23 witness: after a flush new messages are pending with a live timer each
\* (two-timer: both timers), and no handle of the flushed batch is left.
C23_Witness ==
    /\ variant \in {"single", "two"}
    /\ disposePc = "idle"
    /\ calls # << >>
    /\ messageBatch # << >>
    /\ messageBatch[1].timestamp > 0
    /\ IF variant = "single"
          THEN timers = { [kind |-> "batch", due |-> batchTimer] }
       ELSE timers = { [kind |-> "inactivity", due |-> inactivityTimer],
                       [kind |-> "maxWait", due |-> maxWaitTimer] }


\* the ids of q are in arrival order
InArrivalOrder(q) == \A j, k \in 1..Len(q) : j < k => q[j] < q[k]

\* C24: all three revisions: pending always holds fewer than maxBatchSize
\* messages, and every batch passed to the judge, whatever started the call,
\* holds between 1 and maxBatchSize messages in arrival order.
C24_BatchSizeWithinBounds ==
    /\ Len(messageBatch) < maxBatchSize
    /\ \A i \in 1..Len(calls) :
           /\ Len(calls[i].aiPayload) >= 1
           /\ Len(calls[i].aiPayload) <= maxBatchSize
           /\ InArrivalOrder(calls[i].aiPayload)

\* C24 witness: one batch was passed by the size threshold with maxBatchSize
\* messages and a shorter one by the 'dispose' handler.
C24_Witness ==
    /\ \E i, j \in 1..Len(calls) :
           /\ calls[i].origin = "size"
           /\ Len(calls[i].aiPayload) = maxBatchSize
           /\ calls[j].origin = "dispose"
           /\ Len(calls[j].aiPayload) < maxBatchSize


(* -------------------- claims on the judge loop (2) -------------------- *)

\* the step is a failure of the attempt of call i
FailsIn(i) ==
    i <= Len(calls) /\ i <= Len(calls') /\ calls'[i].attempt > calls[i].attempt

\* a failure never moves retryTime to an earlier time
NeverEarlierStep ==
    (\E i \in 1..Len(calls') : FailsIn(i)) => retryTime' >= retryTime

\* the loop that failed waits at least 20000 ms from its failure, whatever the
\* other loops do to retryTime meanwhile
NotShortenedStep ==
    \A i \in 1..Len(calls') :
        /\ FailsIn(i) =>
               calls'[i].pc = "sleep" /\ calls'[i].wake >= now + RetryBase
        /\ (i <= Len(calls) /\ calls[i].pc = "sleep") =>
               \/ calls'[i] = calls[i]
               \/ calls'[i].pc = "http" /\ calls[i].wake <= now

NotShortenedBySuccess == [][NotShortenedStep]_vars

\* C25 (as claimed): with several loops in flight, a failure never moves the
\* shared retryTime to an earlier time, and a loop that has just failed is not
\* retried sooner than 20000 ms after its failure, also when another loop's
\* success resets retryTime to 0 meanwhile.
C25_RetryTimeNeverShortened == [][NeverEarlierStep /\ NotShortenedStep]_vars


(* ----------------------- claims on shutdown (2) ----------------------- *)

\* C28 (as claimed): once the 'dispose' handler has completed, every batch that
\* a timer or the size threshold detached has finished analysis and dispatch.
C28_NothingInFlightAfterDispose ==
    disposePc = "done" =>
        \A i \in 1..Len(calls) :
            calls[i].origin # "dispose" => calls[i].pc = "done"


(* ------------------- claims on the dispatcher (3) --------------------- *)

\* the positions of the log that hold a call of one of ops
CallsLogged(ops) == { p \in 1..Len(dispatch.log) : dispatch.log[p].op \in ops }

\* C26 (as claimed): part_000: every deleteMessage is issued on the bot of the
\* platform of the deleted message's own channelId.
C26_RecallOnOwnPlatformBot ==
    variant = "part" =>
        \A p \in CallsLogged({"recall"}) :
            BotOf(dispatch.log[p].v)
                = PlatformOf(MessageMap[dispatch.log[p].msg].channelId)

\* the messages of the batch that violation v names
Referenced(v) ==
    { MessageMap[id] :
        id \in { judgeOutput[v].ids[k] : k \in 1..Len(judgeOutput[v].ids) }
               \cap MessageIds }

\* C27 (as claimed): part_000: every muteGuildMember and kickGuildMember call
\* names a user who is the author of a message the violation references, and
\* the guild of that message.
C27_PunishedIsAnAuthor ==
    variant = "part" =>
        \A p \in CallsLogged({"mute", "kick"}) :
            \E m \in Referenced(dispatch.log[p].v) :
                /\ m.userId = PunishedUser(dispatch.log[p].v)
                /\ m.guildId = PunishedGuild(dispatch.log[p].v)

=============================================================================
